---- MODULE Spec2Model ----
(***************************************************************************)
(* A model of toil's AWSFile (src/toil/jobStores/aws/file_info.py): one    *)
(* file record, the versioned object store and the metadata catalog it     *)
(* talks to, the local file system download() publishes into, and the      *)
(* pipe stages of uploadStream() and downloadStream().                     *)
(*                                                                         *)
(* Encoding.  A byte string and a version string are sequences; Python's   *)
(* None is the empty tuple and a present value x is the 1-tuple <<x>>, so  *)
(* that None, the empty string and a non-empty string stay three distinct  *)
(* values:  None = <<>>,  '' = << <<>> >>,  'v2' = << <<2>> >>.             *)
(*                                                                         *)
(* The methods read and assign content, version and previousVersion as     *)
(* fields of the record: an assignment changes that field and no other.    *)
(* The helpers the file imports (uploadFromPath, compute_checksum_for_file,*)
(* AtomicFileCreate, the pipe classes) are modelled by their contracts.    *)
(***************************************************************************)
EXTENDS Naturals, Sequences, FiniteSets, TLC

\* ------------------------------------------------------------------ bounds
\* Longest local file, and most uploads after the first version.
MaxLen == 3
MaxUploads == 1
\* The store's configured part size (outer.partSize), in bytes.
PartSize == 2
\* The read size of the hashing loops (1 MiB in the source), in bytes.
ChunkSize == 2
\* A pipe's buffer, and the longest payload streamed through it.
PipeCap == 1
MaxStream == 5

\* --------------------------------------------------------------- encoding
None == <<>>
Some(x) == <<x>>
EmptyStr == <<>>
Token(k) == <<k>>

Byte == {0, 1}

RECURSIVE SeqsUpTo(_)
SeqsUpTo(n) ==
    IF n = 0 THEN {<<>>}
    ELSE LET shorter == SeqsUpTo(n - 1)
         IN  shorter \cup {Append(s, b) : s \in {t \in shorter : Len(t) = n - 1}, b \in Byte}

Bytes == SeqsUpTo(MaxLen)

\* The local files offered to upload(): for every length up to MaxLen, the
\* two files whose bytes alternate, starting with 0 and starting with 1.
Files == {[i \in 1..n |-> (i + first) % 2] : n \in 0..MaxLen, first \in Byte}

\* Version 1 is the object a loaded record already has; each upload adds one.
Tokens == {Token(k) : k \in 1..(1 + MaxUploads)}

\* A version written by another writer of the same catalog record.
OtherVersion == Some(Token(0))

Min(a, b) == IF a < b THEN a ELSE b

IsPrefix(s, t) == Len(s) <= Len(t) /\ SubSeq(t, 1, Len(s)) = s

\* Python truthiness of an optional string: neither None nor ''.
Truthy(v) == v # None /\ v[1] # EmptyStr

\* --------------------------------------------------------------- checksum
Algorithms == {"sha1", "md5"}

\* One step of a hash object's update(): the state absorbs one byte.  The
\* two algorithms digest the same bytes differently.
HashByte(algorithm, h, b) ==
    IF algorithm = "sha1" THEN 3 * h + (b + 1) ELSE 3 * h + (2 - b)

RECURSIVE HashUpdate(_, _, _)
HashUpdate(algorithm, h, chunk) ==
    IF chunk = <<>> THEN h
    ELSE HashUpdate(algorithm, HashByte(algorithm, h, Head(chunk)), Tail(chunk))

HashNew == 0

FormatChecksum(algorithm, digest) == <<algorithm, digest>>

\* checksum.split('$')
ParseChecksum(c) == [algorithm |-> c[1], digest |-> c[2]]

\* compute_checksum_for_file: the file is read chunk by chunk into the hash.
RECURSIVE HashChunks(_, _, _)
HashChunks(algorithm, h, data) ==
    IF data = <<>> THEN h
    ELSE LET n == Min(ChunkSize, Len(data))
         IN  HashChunks(algorithm, HashUpdate(algorithm, h, SubSeq(data, 1, n)),
                        SubSeq(data, n + 1, Len(data)))

ComputeChecksumForFile(data, algorithm) ==
    FormatChecksum(algorithm, HashChunks(algorithm, HashNew, data))

\* ------------------------------------------------------------ object store
\* uploadFromPath: one put when the file fits in a part, otherwise the file
\* is cut into parts of partSize that the store assembles in part order.
RECURSIVE SplitParts(_, _)
SplitParts(data, partSize) ==
    IF Len(data) <= partSize THEN <<data>>
    ELSE <<SubSeq(data, 1, partSize)>> \o SplitParts(SubSeq(data, partSize + 1, Len(data)), partSize)

RECURSIVE Assemble(_)
Assemble(parts) ==
    IF parts = <<>> THEN <<>> ELSE Head(parts) \o Assemble(Tail(parts))

UploadFromPath(data, partSize) ==
    IF Len(data) <= partSize THEN data ELSE Assemble(SplitParts(data, partSize))

VARIABLES
    \* the record (AWSFile)
    content, version, previousVersion, checksum,
    \* the collaborators
    objects,        \* object store: the versions of this file's key, in order
    catalog,        \* metadata catalog: None (no record) or Some(version)
    dest,           \* the path of the running download: None (absent) or Some(bytes)
    tmp,            \* AtomicFileCreate's temporary file: None or Some(bytes)
    \* the running operation
    pc, xfer, verify, destBefore, result, calls,
    arg,            \* the running operation's arguments
    ret,            \* getSize's return value: None or Some(size)
    dstObj,         \* copyTo's destination object: None (absent) or Some(bytes)
    \* uploadStream's pipe
    usBuf, usLeft, usReader, usBody,
    \* history: the file of the upload() that last changed the record, if it
    \* succeeded
    lastUpload,
    \* downloadStream
    src, p1buf, p1wclosed, p1rclosed, p2buf, p2wclosed, p2rclosed,
    driver, driverWritten, stage, hasher, contents, forwarded,
    consumer, received, sawEOF, main, error

recVars == <<content, version, previousVersion, checksum>>
envVars == <<objects, catalog, dest, tmp>>
opVars == <<pc, xfer, verify, destBefore, result, calls>>
cpVars == <<arg, ret, dstObj>>
usVars == <<usBuf, usLeft, usReader, usBody>>
streamVars == <<src, p1buf, p1wclosed, p1rclosed, p2buf, p2wclosed, p2rclosed,
                driver, driverWritten, stage, hasher, contents, forwarded,
                consumer, received, sawEOF, main, error>>
vars == <<recVars, envVars, opVars, cpVars, usVars, lastUpload, streamVars>>

\* ------------------------------------------------------------ idle values
StreamIdle ==
    /\ src = <<>> /\ p1buf = <<>> /\ p1wclosed = FALSE /\ p1rclosed = FALSE
    /\ p2buf = <<>> /\ p2wclosed = FALSE /\ p2rclosed = FALSE
    /\ driver = "new" /\ driverWritten = <<>> /\ stage = "none" /\ hasher = HashNew
    /\ contents = <<>> /\ forwarded = <<>> /\ consumer = "new" /\ received = <<>>
    /\ sawEOF = FALSE /\ main = "new" /\ error = "none"

UsIdle == usBuf = <<>> /\ usLeft = <<>> /\ usReader = "none" /\ usBody = "none"

OpIdle ==
    /\ pc = "idle" /\ xfer = <<>> /\ verify = FALSE /\ destBefore = None
    /\ result = "none" /\ calls = <<>>

CpIdle == arg = <<>> /\ ret = None /\ dstObj = None

\* A checksum the catalog may hold for data: none, the data's own checksum
\* under either algorithm, or the checksum of other bytes.
ChecksumsFor(data) ==
    {None} \cup {Some(ComputeChecksumForFile(data, a)) : a \in Algorithms}
           \cup {Some(ComputeChecksumForFile(Append(data, 1), "sha1"))}

\* __init__ (a new file), or a record as the job store loads it from the
\* catalog: inlined (version '') or stored as version 1 of the object.
NewRecord ==
    /\ content = None /\ version = None /\ previousVersion = None
    /\ checksum = None /\ catalog = None /\ objects = <<>>

InlinedRecord ==
    \E c \in {<<>>, <<1>>, <<0, 1, 1>>} :
        /\ content = Some(c) /\ version = Some(EmptyStr)
        /\ previousVersion = Some(EmptyStr) /\ catalog = Some(EmptyStr)
        /\ checksum \in ChecksumsFor(c) /\ objects = <<>>

RemoteRecord ==
    \E b \in {<<>>, <<1, 0>>, <<0, 1, 1>>} :
        /\ content = None /\ version = Some(Token(1))
        /\ previousVersion = Some(Token(1)) /\ catalog = Some(Token(1))
        /\ checksum \in ChecksumsFor(b) /\ objects = <<Some(b)>>

Init ==
    /\ NewRecord \/ InlinedRecord \/ RemoteRecord
    /\ dest = None /\ tmp = None /\ lastUpload = None
    /\ OpIdle /\ CpIdle /\ UsIdle /\ StreamIdle

\* The object store holds versions 1..Len(objects) of the key; a deleted
\* version is kept as None.
HasObject(v) == Truthy(v) /\ v[1] \in Tokens /\ v[1][1] <= Len(objects) /\ objects[v[1][1]] # None
ObjectOf(v) == objects[v[1][1]][1]

\* ------------------------------------------------------------------ upload
\* upload(localFilePath, calculateChecksum): the checksum is assigned, then
\* An upload that also remembers the version it replaces.
UploadRemembersPrevious(f, calculateChecksum) ==
    /\ pc = "idle"
    /\ Len(objects) < 1 + MaxUploads
    /\ checksum' = IF calculateChecksum THEN Some(ComputeChecksumForFile(f, "sha1")) ELSE None
    /\ objects' = Append(objects, Some(UploadFromPath(f, PartSize)))
    /\ version' = Some(Token(Len(objects) + 1))
    /\ previousVersion' = version
    /\ lastUpload' = Some(f)
    /\ pc' = "up_done" /\ result' = "ok"
    /\ arg' = <<f, calculateChecksum>>
    /\ UNCHANGED <<ret, dstObj, content, catalog, dest, tmp, xfer, verify, destBefore, calls>>
    /\ UNCHANGED <<usVars, streamVars>>

\* uploadFromPath runs and its version token is assigned.
Upload(f, calculateChecksum) ==
    /\ pc = "idle"
    /\ Len(objects) < 1 + MaxUploads
    /\ checksum' = IF calculateChecksum THEN Some(ComputeChecksumForFile(f, "sha1")) ELSE None
    /\ objects' = Append(objects, Some(UploadFromPath(f, PartSize)))
    /\ version' = Some(Token(Len(objects) + 1))
    /\ lastUpload' = Some(f)
    /\ pc' = "up_done" /\ result' = "ok"
    /\ arg' = <<f, calculateChecksum>>
    /\ UNCHANGED <<ret, dstObj, content, previousVersion, catalog, dest, tmp, xfer, verify, destBefore, calls>>
    /\ UNCHANGED <<usVars, streamVars>>

\* A failing upload that had not yet touched the checksum.
UploadFailsKeepsChecksum(f, calculateChecksum) ==
    /\ pc = "idle"
    /\ lastUpload' = None
    /\ pc' = "up_done" /\ result' = "TransferError"
    /\ arg' = <<f, calculateChecksum>>
    /\ UNCHANGED <<ret, dstObj, recVars, envVars, xfer, verify, destBefore, calls>>
    /\ UNCHANGED <<usVars, streamVars>>

\* uploadFromPath raises: the checksum has been assigned, the version not.
UploadFails(f, calculateChecksum) ==
    /\ pc = "idle"
    /\ checksum' = IF calculateChecksum THEN Some(ComputeChecksumForFile(f, "sha1")) ELSE None
    /\ lastUpload' = None
    /\ pc' = "up_done" /\ result' = "TransferError"
    /\ arg' = <<f, calculateChecksum>>
    /\ UNCHANGED <<ret, dstObj, content, version, previousVersion, envVars, xfer, verify, destBefore, calls>>
    /\ UNCHANGED <<usVars, streamVars>>

\* ---------------------------------------------------------------- download
\* What a remote fetch may put into the local file: the stored bytes, or the
\* stored bytes truncated or with a byte altered in transit.
Delivered(obj) ==
    {obj} \cup (IF obj = <<>> THEN {}
                ELSE {SubSeq(obj, 1, Len(obj) - 1),
                      [obj EXCEPT ![1] = 1 - obj[1]]})

\* What download()'s destination path may hold before the call: nothing, or
\* an older file.
PriorFiles == {None, Some(<<0>>)}

\* A download that fetches the version seen at load time.
FetchPreviousVersion == previousVersion

\* download, line 165: the version fetched is the record's current version.
FetchVersion == version

\* A check that ignores the verifyChecksum argument.
DownloadVerdictAlways(fetched) ==
    IF checksum # None
    THEN LET algorithm == ParseChecksum(checksum[1]).algorithm
             computed == ComputeChecksumForFile(fetched, algorithm)
         IN  IF checksum[1] # computed THEN "ChecksumError" ELSE "ok"
    ELSE "ok"

\* download, lines 167-172: the check that follows the atomic creation of a
\* remotely fetched file.  fetched is the published file's content.
DownloadVerdict(fetched) ==
    IF verify /\ checksum # None
    THEN LET algorithm == ParseChecksum(checksum[1]).algorithm
             computed == ComputeChecksumForFile(fetched, algorithm)
         IN  IF checksum[1] # computed THEN "ChecksumError" ELSE "ok"
    ELSE "ok"

\* AtomicFileCreate: a temporary path is handed out; it is renamed onto the
\* final path when the body succeeds and removed when the body raises.
AtomicPublish == dest' = tmp /\ tmp' = None
AtomicDiscard == tmp' = None /\ UNCHANGED dest

\* download(), content is not None: the inline bytes go to the temporary file.
DownloadInline(verifyChecksum, prior) ==
    /\ pc = "idle"
    /\ content # None
    /\ pc' = "dl_inline"
    /\ xfer' = content[1]
    /\ tmp' = Some(<<>>)
    /\ verify' = verifyChecksum /\ destBefore' = prior /\ dest' = prior
    /\ UNCHANGED <<cpVars, result, calls>>
    /\ UNCHANGED <<recVars, objects, catalog, lastUpload, usVars, streamVars>>

\* download(), elif self.version: the object's version is fetched into the
\* temporary file.
DownloadRemote(verifyChecksum, prior) ==
    /\ pc = "idle"
    /\ content = None /\ Truthy(version)
    /\ HasObject(FetchVersion)
    /\ \E data \in Delivered(ObjectOf(FetchVersion)) : xfer' = data
    /\ pc' = "dl_fetch"
    /\ tmp' = Some(<<>>)
    /\ verify' = verifyChecksum /\ destBefore' = prior /\ dest' = prior
    /\ UNCHANGED <<cpVars, result, calls>>
    /\ UNCHANGED <<recVars, objects, catalog, lastUpload, usVars, streamVars>>

\* download() of a version the store does not hold: the fetch raises at once.
DownloadMissing(verifyChecksum, prior) ==
    /\ pc = "idle"
    /\ content = None /\ Truthy(version)
    /\ ~HasObject(FetchVersion)
    /\ xfer' = <<>> /\ tmp' = None
    /\ verify' = verifyChecksum /\ destBefore' = prior /\ dest' = prior
    /\ pc' = "dl_done" /\ result' = "NoSuchVersion"
    /\ UNCHANGED <<cpVars, recVars, objects, catalog, calls, lastUpload, usVars, streamVars>>

\* download(), else: assert False.
DownloadEmpty(verifyChecksum, prior) ==
    /\ pc = "idle"
    /\ content = None /\ ~Truthy(version)
    /\ xfer' = <<>>
    /\ verify' = verifyChecksum /\ destBefore' = prior /\ dest' = prior
    /\ pc' = "dl_done" /\ result' = "AssertionError"
    /\ UNCHANGED <<cpVars, recVars, objects, catalog, tmp, calls, lastUpload, usVars, streamVars>>

\* A transfer that opens the final path instead of the temporary one.
DownloadWriteFinalPath ==
    /\ pc \in {"dl_inline", "dl_fetch"}
    /\ Len(tmp[1]) < Len(xfer)
    /\ tmp' = Some(Append(tmp[1], xfer[Len(tmp[1]) + 1]))
    /\ dest' = tmp'
    /\ UNCHANGED <<cpVars, recVars, objects, catalog, opVars, lastUpload, usVars, streamVars>>

\* The transfer writes the next byte into the temporary file.
DownloadWrite ==
    /\ pc \in {"dl_inline", "dl_fetch"}
    /\ Len(tmp[1]) < Len(xfer)
    /\ tmp' = Some(Append(tmp[1], xfer[Len(tmp[1]) + 1]))
    /\ UNCHANGED <<cpVars, recVars, objects, catalog, dest, opVars, lastUpload, usVars, streamVars>>

\* The transfer raises partway (or before its first byte).
DownloadFail ==
    /\ pc \in {"dl_inline", "dl_fetch"}
    /\ AtomicDiscard
    /\ pc' = "dl_done" /\ result' = "TransferError"
    /\ UNCHANGED <<cpVars, recVars, objects, catalog, xfer, verify, destBefore, calls, lastUpload, usVars, streamVars>>

\* A download that checks the published file in the inline branch too.
DownloadPublishChecksInline ==
    /\ pc \in {"dl_inline", "dl_fetch"}
    /\ tmp[1] = xfer
    /\ AtomicPublish
    /\ pc' = "dl_done"
    /\ result' = DownloadVerdict(tmp[1])
    /\ UNCHANGED <<cpVars, recVars, objects, catalog, xfer, verify, destBefore, calls, lastUpload, usVars, streamVars>>

\* A download that checks the temporary file inside the scope and discards
\* it on a mismatch.
DownloadPublishVerified ==
    /\ pc \in {"dl_inline", "dl_fetch"}
    /\ tmp[1] = xfer
    /\ pc' = "dl_done"
    /\ result' = IF pc = "dl_fetch" THEN DownloadVerdict(tmp[1]) ELSE "ok"
    /\ IF result' = "ChecksumError" THEN AtomicDiscard ELSE AtomicPublish
    /\ UNCHANGED <<cpVars, recVars, objects, catalog, xfer, verify, destBefore, calls, lastUpload, usVars, streamVars>>

\* The transfer is complete: the scope publishes the file, and a remote
\* download then checks the published file.
DownloadPublish ==
    /\ pc \in {"dl_inline", "dl_fetch"}
    /\ tmp[1] = xfer
    /\ AtomicPublish
    /\ pc' = "dl_done"
    /\ result' = IF pc = "dl_fetch" THEN DownloadVerdict(tmp[1]) ELSE "ok"
    /\ UNCHANGED <<cpVars, recVars, objects, catalog, xfer, verify, destBefore, calls, lastUpload, usVars, streamVars>>

\* ------------------------------------------------------------------ delete
\* filesDomain.delete_attributes(expected_values=['version', v]): the record
\* is removed only if the catalog's current version is v.
CatalogAccepts(expected) == catalog = Some(expected)

\* A delete that expects the record's current version.
ExpectedCurrentVersion == IF version # None THEN version ELSE previousVersion

\* delete(), line 236: the version the conditional delete expects.
ExpectedVersion == previousVersion

\* A delete that tests previousVersion against None a second time.
DeletesObjectNotNone == previousVersion # None

\* delete(), line 237: the object delete is issued for a non-empty version.
DeletesObject == Truthy(previousVersion)

Delete ==
    /\ pc = "idle"
    /\ IF previousVersion # None
       THEN IF CatalogAccepts(ExpectedVersion[1])
            THEN /\ catalog' = None
                 /\ result' = "ok"
                 /\ IF DeletesObject
                    THEN /\ calls' = <<<<"delete_attributes", ExpectedVersion[1]>>,
                                       <<"delete_object", previousVersion[1]>>>>
                         /\ objects' = [k \in DOMAIN objects |->
                                          IF Token(k) = previousVersion[1] THEN None ELSE objects[k]]
                    ELSE /\ calls' = <<<<"delete_attributes", ExpectedVersion[1]>>>>
                         /\ UNCHANGED objects
            ELSE /\ calls' = <<<<"delete_attributes", ExpectedVersion[1]>>>>
                 /\ result' = "ConditionalCheckFailed"
                 /\ UNCHANGED <<catalog, objects>>
       ELSE /\ calls' = <<>> /\ result' = "ok"
            /\ UNCHANGED <<catalog, objects>>
    /\ pc' = "del_done"
    /\ UNCHANGED <<cpVars, recVars, dest, tmp, xfer, verify, destBefore, lastUpload, usVars, streamVars>>

\* ------------------------------------------------------------------ copyFrom
\* The largest declared length copyFrom() inlines, in bytes.
InlineThreshold == 256

\* The source objects offered to copyFrom(), as <<content_length, body>>:
\* empty, one byte, and the lengths on either side of the threshold.
SrcLengths == {0, 1, InlineThreshold - 1, InlineThreshold, InlineThreshold + 1}
SrcObjects == {<<n, [i \in 1..n |-> i % 2]>> : n \in SrcLengths}

CopiesInlineBelow(n) == n < InlineThreshold

\* if srcObj.content_length <= 256
CopiesInline(n) == n <= InlineThreshold

\* The source's body is fetched and assigned to content.
CopyFromInline(srcObj) ==
    /\ pc = "idle"
    /\ CopiesInline(srcObj[1])
    /\ content' = Some(srcObj[2])
    /\ calls' = << <<"get", srcObj[1]>> >>
    /\ lastUpload' = None
    /\ pc' = "cf_done" /\ result' = "ok" /\ arg' = srcObj
    /\ UNCHANGED <<version, previousVersion, checksum, envVars, xfer, verify, destBefore>>
    /\ UNCHANGED <<ret, dstObj, usVars, streamVars>>

\* copyKeyMultipart copies the source into a new version of this file's key
\* and its version token is assigned.
CopyFromRemote(srcObj) ==
    /\ pc = "idle"
    /\ ~CopiesInline(srcObj[1])
    /\ Len(objects) < 1 + MaxUploads
    /\ objects' = Append(objects, Some(srcObj[2]))
    /\ version' = Some(Token(Len(objects) + 1))
    /\ calls' = << <<"copy", srcObj[1]>> >>
    /\ lastUpload' = None
    /\ pc' = "cf_done" /\ result' = "ok" /\ arg' = srcObj
    /\ UNCHANGED <<content, previousVersion, checksum, catalog, dest, tmp, xfer, verify, destBefore>>
    /\ UNCHANGED <<ret, dstObj, usVars, streamVars>>

\* The fetch or the copy raises: nothing is assigned.
CopyFromFails(srcObj) ==
    /\ pc = "idle"
    /\ calls' = << <<(IF CopiesInline(srcObj[1]) THEN "get" ELSE "copy"), srcObj[1]>> >>
    /\ pc' = "cf_done" /\ result' = "TransferError" /\ arg' = srcObj
    /\ UNCHANGED <<recVars, envVars, xfer, verify, destBefore, lastUpload>>
    /\ UNCHANGED <<ret, dstObj, usVars, streamVars>>

\* -------------------------------------------------------------------- copyTo
CopyToHasContentTruthy == Truthy(content)

\* if self.content is not None
CopyToHasContent == content # None

\* dstObj.put(Body=self.content)
CopyToInline ==
    /\ pc = "idle"
    /\ CopyToHasContent
    /\ dstObj' = content
    /\ calls' = << <<"put", content>> >>
    /\ pc' = "ct_done" /\ result' = "ok"
    /\ UNCHANGED <<recVars, envVars, xfer, verify, destBefore, lastUpload>>
    /\ UNCHANGED <<arg, ret, usVars, streamVars>>

\* elif self.version: copyKeyMultipart with srcKeyVersion=self.version.  The
\* copy finds that version of the key, or the store has no such version.
CopyToRemote ==
    /\ pc = "idle"
    /\ ~CopyToHasContent /\ Truthy(version)
    /\ calls' = << <<"copy", version>> >>
    /\ IF HasObject(version)
       THEN dstObj' = Some(ObjectOf(version)) /\ result' = "ok"
       ELSE dstObj' = dstObj /\ result' = "NoSuchVersion"
    /\ pc' = "ct_done"
    /\ UNCHANGED <<recVars, envVars, xfer, verify, destBefore, lastUpload>>
    /\ UNCHANGED <<arg, ret, usVars, streamVars>>

\* else: assert False
CopyToEmpty ==
    /\ pc = "idle"
    /\ ~CopyToHasContent /\ ~Truthy(version)
    /\ pc' = "ct_done" /\ result' = "AssertionError"
    /\ UNCHANGED <<recVars, envVars, xfer, verify, destBefore, calls, lastUpload>>
    /\ UNCHANGED <<cpVars, usVars, streamVars>>

\* The put or the copy raises in transit: the destination is not written.
CopyToFails ==
    /\ pc = "idle"
    /\ CopyToHasContent \/ Truthy(version)
    /\ calls' = IF CopyToHasContent THEN << <<"put", content>> >>
                ELSE << <<"copy", version>> >>
    /\ pc' = "ct_done" /\ result' = "TransferError"
    /\ UNCHANGED <<recVars, envVars, xfer, verify, destBefore, lastUpload>>
    /\ UNCHANGED <<cpVars, usVars, streamVars>>

\* ------------------------------------------------------------------- getSize
GetSizeHasContentTruthy == Truthy(content)

\* if self.content is not None
GetSizeHasContent == content # None

\* filesBucket.Object(fileID) names the key without a version: its
\* content_length is that of the key's latest stored version.
LiveVersions == {i \in 1..Len(objects) : objects[i] # None}
KeyExists == LiveVersions # {}
LatestObject == objects[CHOOSE i \in LiveVersions : \A j \in LiveVersions : j <= i][1]

\* return len(self.content)
GetSizeInline ==
    /\ pc = "idle"
    /\ GetSizeHasContent
    /\ ret' = Some(Len(content[1]))
    /\ pc' = "gs_done" /\ result' = "ok"
    /\ UNCHANGED <<recVars, envVars, xfer, verify, destBefore, calls, lastUpload>>
    /\ UNCHANGED <<arg, dstObj, usVars, streamVars>>

\* elif self.version: return obj.content_length
GetSizeRemote ==
    /\ pc = "idle"
    /\ ~GetSizeHasContent /\ Truthy(version)
    /\ calls' = << <<"head", None>> >>
    /\ IF KeyExists
       THEN ret' = Some(Len(LatestObject)) /\ result' = "ok"
       ELSE ret' = ret /\ result' = "NoSuchKey"
    /\ pc' = "gs_done"
    /\ UNCHANGED <<recVars, envVars, xfer, verify, destBefore, lastUpload>>
    /\ UNCHANGED <<arg, dstObj, usVars, streamVars>>

\* else: return 0
GetSizeEmpty ==
    /\ pc = "idle"
    /\ ~GetSizeHasContent /\ ~Truthy(version)
    /\ ret' = Some(0)
    /\ pc' = "gs_done" /\ result' = "ok"
    /\ UNCHANGED <<recVars, envVars, xfer, verify, destBefore, calls, lastUpload>>
    /\ UNCHANGED <<arg, dstObj, usVars, streamVars>>

\* The operation has returned to its caller.
Return ==
    /\ pc \in {"up_done", "dl_done", "del_done", "cf_done", "ct_done", "gs_done"}
    /\ pc' = "idle" /\ xfer' = <<>> /\ verify' = FALSE /\ destBefore' = None
    /\ result' = "none" /\ calls' = <<>> /\ dest' = None
    /\ arg' = <<>> /\ ret' = None /\ dstObj' = None
    /\ UNCHANGED <<recVars, objects, catalog, tmp, lastUpload, usVars, streamVars>>

\* Another writer replaces the catalog record's version.
ConcurrentModify ==
    /\ pc = "idle"
    /\ catalog # None /\ catalog # OtherVersion
    /\ catalog' = OtherVersion
    /\ UNCHANGED <<cpVars, recVars, objects, dest, tmp, opVars, lastUpload, usVars, streamVars>>

Next ==
    \/ \E f \in Files, c \in BOOLEAN : Upload(f, c)
    \/ \E f \in Files, c \in BOOLEAN : UploadFails(f, c)
    \/ \E v \in BOOLEAN, prior \in PriorFiles : DownloadInline(v, prior)
    \/ \E v \in BOOLEAN, prior \in PriorFiles : DownloadRemote(v, prior)
    \/ \E v \in BOOLEAN, prior \in PriorFiles : DownloadMissing(v, prior)
    \/ \E v \in BOOLEAN, prior \in PriorFiles : DownloadEmpty(v, prior)
    \/ DownloadWrite
    \/ DownloadFail
    \/ DownloadPublish
    \/ GetSizeInline
    \/ GetSizeRemote
    \/ GetSizeEmpty
    \/ Delete
    \/ Return
    \/ ConcurrentModify

Spec == Init /\ [][Next]_vars

\* The record's single-step operations, with copyFrom() and copyTo().
CopyNext ==
    \/ \E f \in Files, c \in BOOLEAN : Upload(f, c)
    \/ \E f \in Files, c \in BOOLEAN : UploadFails(f, c)
    \/ \E srcObj \in SrcObjects : CopyFromInline(srcObj)
    \/ \E srcObj \in SrcObjects : CopyFromRemote(srcObj)
    \/ \E srcObj \in SrcObjects : CopyFromFails(srcObj)
    \/ CopyToInline
    \/ CopyToRemote
    \/ CopyToEmpty
    \/ CopyToFails
    \/ GetSizeInline
    \/ GetSizeRemote
    \/ GetSizeEmpty
    \/ Delete
    \/ Return

CopySpec == Init /\ [][CopyNext]_vars

\* ------------------------------------------------------------ uploadStream
\* uploadStream() hands the caller the writable end of a pipe whose reader
\* thread consumes what the caller writes.  reader_done is set when the
\* reader has read to end-of-stream; a reader that stops earlier leaves it
\* unset.
UploadStreamOpen(data, allowInlining) ==
    /\ pc = "idle"
    /\ pc' = "us_open"
    /\ arg' = <<data, allowInlining>>
    /\ usLeft' = data /\ usBuf' = <<>> /\ usReader' = "run" /\ usBody' = "open"
    /\ UNCHANGED <<ret, dstObj, recVars, envVars, xfer, verify, destBefore, result, calls, lastUpload, streamVars>>

\* The caller's body writes its next byte into the pipe.
UsWrite ==
    /\ pc = "us_open" /\ usBody = "open"
    /\ usLeft # <<>> /\ Len(usBuf) < PipeCap /\ usReader = "run"
    /\ usBuf' = Append(usBuf, Head(usLeft)) /\ usLeft' = Tail(usLeft)
    /\ UNCHANGED <<cpVars, recVars, envVars, opVars, usReader, usBody, lastUpload, streamVars>>

\* The reader thread takes the next byte.
UsRead ==
    /\ usReader = "run" /\ usBuf # <<>>
    /\ usBuf' = Tail(usBuf)
    /\ UNCHANGED <<cpVars, recVars, envVars, opVars, usLeft, usReader, usBody, lastUpload, streamVars>>

\* The reader reads end-of-stream: the writable end is closed and the pipe
\* is drained.  readFrom returns and reader_done is set.
UsReaderDone ==
    /\ usReader = "run" /\ usBuf = <<>> /\ usBody \in {"exited", "raised"}
    /\ usReader' = "done"
    /\ UNCHANGED <<cpVars, recVars, envVars, opVars, usBuf, usLeft, usBody, lastUpload, streamVars>>

\* The reader stops before end-of-stream; reader_done stays unset.
UsReaderStop ==
    /\ usReader = "run"
    /\ usReader' = "stopped"
    /\ UNCHANGED <<cpVars, recVars, envVars, opVars, usBuf, usLeft, usBody, lastUpload, streamVars>>

\* The caller's body ends normally: the with block closes the writable end.
UsBodyExit ==
    /\ pc = "us_open" /\ usBody = "open"
    /\ usBody' = "exited"
    /\ UNCHANGED <<cpVars, recVars, envVars, opVars, usBuf, usLeft, usReader, lastUpload, streamVars>>

\* The caller's body raises (a write into a pipe whose reader has stopped
\* raises BrokenPipeError there, too).
UsBodyRaises ==
    /\ pc = "us_open" /\ usBody = "open"
    /\ usBody' = "raised"
    /\ UNCHANGED <<cpVars, recVars, envVars, opVars, usBuf, usLeft, usReader, lastUpload, streamVars>>

\* A scope exit that never examines reader_done.
ScopeExitUnchecked == "ok"

\* uploadStream, lines 108-109: what the scope's normal exit ends with.
ScopeExitVerdict == IF ~(usReader = "done") THEN "RuntimeError" ELSE "ok"

\* The with block has closed the pipe and joined the reader thread.  A
\* raising body leaves through the with block with its own exception; after
\* a normal exit reader_done is examined.
UsScopeExit ==
    /\ pc = "us_open" /\ usBody \in {"exited", "raised"}
    /\ usReader \in {"done", "stopped"}
    /\ pc' = "us_done"
    /\ result' = IF usBody = "raised" THEN "BodyError" ELSE ScopeExitVerdict
    /\ UNCHANGED <<cpVars, recVars, envVars, xfer, verify, destBefore, calls, usVars, lastUpload, streamVars>>

UsReturn ==
    /\ pc = "us_done"
    /\ pc' = "idle" /\ result' = "none" /\ arg' = <<>>
    /\ usBuf' = <<>> /\ usLeft' = <<>> /\ usReader' = "none" /\ usBody' = "none"
    /\ UNCHANGED <<ret, dstObj, recVars, envVars, xfer, verify, destBefore, calls, lastUpload, streamVars>>

UsInit ==
    /\ NewRecord
    /\ dest = None /\ tmp = None /\ lastUpload = None
    /\ OpIdle /\ CpIdle /\ UsIdle /\ StreamIdle

UsNext ==
    \/ \E data \in Files, a \in BOOLEAN : UploadStreamOpen(data, a)
    \/ UsWrite
    \/ UsRead
    \/ UsReaderDone
    \/ UsReaderStop
    \/ UsBodyExit
    \/ UsBodyRaises
    \/ UsScopeExit
    \/ UsReturn

UploadStreamSpec == UsInit /\ [][UsNext]_vars

\* ---------------------------------------------------------- downloadStream
\* downloadStream() starts a driver thread that writes the record's bytes
\* into a pipe (DownloadPipe) and, when verifying, a second thread
\* (HashingPipe.transform) that reads that pipe, hashes and forwards into a
\* second pipe; the caller's body reads the last pipe.  A pipe here is a
\* bounded buffer with a closed flag per end: a write waits for room and
\* fails once the read end is closed, a read waits for bytes and returns
\* end-of-stream once the write end is closed and the buffer is empty.

\* The payloads streamed: one per length up to MaxStream.
StreamPayloads == {[i \in 1..n |-> i % 2] : n \in 0..MaxStream}

\* DownloadPipe.writeTo, lines 184-189: the record has bytes to write.
HasSource == content # None \/ Truthy(version)

StreamInit ==
    /\ \/ \E b \in StreamPayloads :
             /\ content = Some(b) /\ version = Some(EmptyStr)
             /\ previousVersion = Some(EmptyStr) /\ catalog = Some(EmptyStr)
             /\ checksum \in ChecksumsFor(b) /\ objects = <<>>
       \/ \E b \in StreamPayloads :
             /\ content = None /\ version = Some(Token(1))
             /\ previousVersion = Some(Token(1)) /\ catalog = Some(Token(1))
             /\ checksum \in ChecksumsFor(b) /\ objects = <<Some(b)>>
       \/ /\ content = None /\ version = None /\ previousVersion = None
          /\ catalog = None /\ objects = <<>>
          /\ checksum \in {None, Some(ComputeChecksumForFile(<<>>, "sha1"))}
    /\ dest = None /\ tmp = None /\ lastUpload = None
    /\ OpIdle /\ CpIdle /\ UsIdle /\ StreamIdle

\* with DownloadPipe() as readable, and with HashingPipe(readable) when
\* verifying: the threads start and the body receives its readable end.
DownloadStreamOpen(verifyChecksum) ==
    /\ main = "new"
    /\ verify' = verifyChecksum
    /\ main' = "body" /\ driver' = "run"
    /\ stage' = IF verifyChecksum /\ checksum # None THEN "read" ELSE "none"
    /\ src' \in (IF content # None THEN {content[1]}
                 ELSE IF Truthy(version) THEN Delivered(ObjectOf(version))
                 ELSE {<<>>})
    /\ UNCHANGED <<cpVars, recVars, envVars, pc, xfer, destBefore, result, calls, usVars, lastUpload>>
    /\ UNCHANGED <<p1buf, p1wclosed, p1rclosed, p2buf, p2wclosed, p2rclosed, driverWritten,
                   hasher, contents, forwarded, consumer, received, sawEOF, error>>

\* ---- the driver thread (DownloadPipe.writeTo)
DriverWrite ==
    /\ driver = "run" /\ HasSource
    /\ Len(driverWritten) < Len(src)
    /\ ~p1rclosed /\ Len(p1buf) < PipeCap
    /\ p1buf' = Append(p1buf, src[Len(driverWritten) + 1])
    /\ driverWritten' = Append(driverWritten, src[Len(driverWritten) + 1])
    /\ UNCHANGED <<cpVars, recVars, envVars, opVars, usVars, lastUpload>>
    /\ UNCHANGED <<src, p1wclosed, p1rclosed, p2buf, p2wclosed, p2rclosed, driver, stage,
                   hasher, contents, forwarded, consumer, received, sawEOF, main, error>>

\* All bytes are written: writeTo returns and the writable end is closed.
DriverDone ==
    /\ driver = "run" /\ HasSource
    /\ driverWritten = src
    /\ driver' = "done" /\ p1wclosed' = TRUE
    /\ UNCHANGED <<cpVars, recVars, envVars, opVars, usVars, lastUpload>>
    /\ UNCHANGED <<src, p1buf, p1rclosed, p2buf, p2wclosed, p2rclosed, driverWritten, stage,
                   hasher, contents, forwarded, consumer, received, sawEOF, main, error>>

\* A write into a pipe whose read end is closed fails; the driver stops.
DriverBroken ==
    /\ driver = "run" /\ HasSource
    /\ Len(driverWritten) < Len(src)
    /\ p1rclosed
    /\ driver' = "broken" /\ p1wclosed' = TRUE
    /\ UNCHANGED <<cpVars, recVars, envVars, opVars, usVars, lastUpload>>
    /\ UNCHANGED <<src, p1buf, p1rclosed, p2buf, p2wclosed, p2rclosed, driverWritten, stage,
                   hasher, contents, forwarded, consumer, received, sawEOF, main, error>>

\* writeTo, lines 190-191: neither content nor version, assert False.
DriverAssert ==
    /\ driver = "run" /\ ~HasSource
    /\ driver' = "failed" /\ p1wclosed' = TRUE
    /\ UNCHANGED <<cpVars, recVars, envVars, opVars, usVars, lastUpload>>
    /\ UNCHANGED <<src, p1buf, p1rclosed, p2buf, p2wclosed, p2rclosed, driverWritten, stage,
                   hasher, contents, forwarded, consumer, received, sawEOF, main, error>>

\* ---- the verifying stage (HashingPipe.transform)
StageAlgorithm == ParseChecksum(checksum[1]).algorithm

\* readable.read(1024 * 1024) gathers bytes until the chunk is full or the
\* stream ends.
StageRead ==
    /\ stage = "read"
    /\ p1buf # <<>> /\ Len(contents) < ChunkSize
    /\ contents' = Append(contents, Head(p1buf))
    /\ p1buf' = Tail(p1buf)
    /\ UNCHANGED <<cpVars, recVars, envVars, opVars, usVars, lastUpload>>
    /\ UNCHANGED <<src, p1wclosed, p1rclosed, p2buf, p2wclosed, p2rclosed, driver, driverWritten,
                   stage, hasher, forwarded, consumer, received, sawEOF, main, error>>

ReadReturns == Len(contents) = ChunkSize \/ (p1wclosed /\ p1buf = <<>>)

\* A hasher that absorbs only a chunk's first byte.
HashAfterReadFirstByte(h, chunk) == HashByte(StageAlgorithm, h, Head(chunk))

\* transform, line 207: hasher.update(contents).
HashAfterRead(h, chunk) == HashUpdate(StageAlgorithm, h, chunk)

\* The read returned a chunk: it is hashed, then forwarded.
StageHash ==
    /\ stage = "read"
    /\ ReadReturns /\ contents # <<>>
    /\ hasher' = HashAfterRead(hasher, contents)
    /\ stage' = "write"
    /\ UNCHANGED <<cpVars, recVars, envVars, opVars, usVars, lastUpload>>
    /\ UNCHANGED <<src, p1buf, p1wclosed, p1rclosed, p2buf, p2wclosed, p2rclosed, driver,
                   driverWritten, contents, forwarded, consumer, received, sawEOF, main, error>>

\* writable.write(contents) moves the chunk into the consumer's pipe; the
\* next read follows the chunk's last byte.
StageWrite ==
    /\ stage = "write"
    /\ ~p2rclosed /\ Len(p2buf) < PipeCap
    /\ p2buf' = Append(p2buf, Head(contents))
    /\ forwarded' = Append(forwarded, Head(contents))
    /\ contents' = Tail(contents)
    /\ stage' = IF Tail(contents) = <<>> THEN "read" ELSE "write"
    /\ UNCHANGED <<cpVars, recVars, envVars, opVars, usVars, lastUpload>>
    /\ UNCHANGED <<src, p1buf, p1wclosed, p1rclosed, p2wclosed, p2rclosed, driver, driverWritten,
                   hasher, consumer, received, sawEOF, main, error>>

\* A stage that lets the failed write end the thread with an error.
BrokenPipeRaises == "raised"

\* A stage that catches the failed write and goes on with its loop.
BrokenPipeRetries == "write"

\* transform, lines 210-213: BrokenPipeError is caught and the stage returns.
BrokenPipeOutcome == "stopped"

StageBroken ==
    /\ stage = "write"
    /\ p2rclosed
    /\ stage' = BrokenPipeOutcome /\ p2wclosed' = TRUE
    /\ UNCHANGED <<cpVars, recVars, envVars, opVars, usVars, lastUpload>>
    /\ UNCHANGED <<src, p1buf, p1wclosed, p1rclosed, p2buf, p2rclosed, driver, driverWritten,
                   hasher, contents, forwarded, consumer, received, sawEOF, main, error>>

\* A stage that computes the digest and never compares it.
EndOfInputUnchecked == "done"

\* transform, lines 217-219: the digest is formatted and compared.
EndOfInputVerdict ==
    IF FormatChecksum(StageAlgorithm, hasher) # checksum[1] THEN "raised" ELSE "done"

\* The read returned b'': end of input, the stage verifies and ends.
StageVerify ==
    /\ stage = "read"
    /\ ReadReturns /\ contents = <<>>
    /\ stage' = EndOfInputVerdict /\ p2wclosed' = TRUE
    /\ UNCHANGED <<cpVars, recVars, envVars, opVars, usVars, lastUpload>>
    /\ UNCHANGED <<src, p1buf, p1wclosed, p1rclosed, p2buf, p2rclosed, driver, driverWritten,
                   hasher, contents, forwarded, consumer, received, sawEOF, main, error>>

\* ---- the caller's body, reading the stream it was handed
Interposed == stage # "none"
OutBuf == IF Interposed THEN p2buf ELSE p1buf
OutWriterClosed == IF Interposed THEN p2wclosed ELSE p1wclosed

ConsumerRead ==
    /\ main = "body"
    /\ OutBuf # <<>>
    /\ received' = Append(received, Head(OutBuf))
    /\ IF Interposed
       THEN p2buf' = Tail(p2buf) /\ UNCHANGED p1buf
       ELSE p1buf' = Tail(p1buf) /\ UNCHANGED p2buf
    /\ UNCHANGED <<cpVars, recVars, envVars, opVars, usVars, lastUpload>>
    /\ UNCHANGED <<src, p1wclosed, p1rclosed, p2wclosed, p2rclosed, driver, driverWritten, stage,
                   hasher, contents, forwarded, consumer, sawEOF, main, error>>

\* The body's read returns end-of-stream.
ConsumerEOF ==
    /\ main = "body" /\ ~sawEOF
    /\ OutBuf = <<>> /\ OutWriterClosed
    /\ sawEOF' = TRUE
    /\ UNCHANGED <<cpVars, recVars, envVars, opVars, usVars, lastUpload>>
    /\ UNCHANGED <<src, p1buf, p1wclosed, p1rclosed, p2buf, p2wclosed, p2rclosed, driver,
                   driverWritten, stage, hasher, contents, forwarded, consumer, received, main,
                   error>>

\* The body ends, at end-of-stream or before it.
ConsumerExit ==
    /\ main = "body"
    /\ main' = IF Interposed THEN "close_stage" ELSE "close_driver"
    /\ consumer' = IF sawEOF THEN "finished" ELSE "left"
    /\ UNCHANGED <<cpVars, recVars, envVars, opVars, usVars, lastUpload>>
    /\ UNCHANGED <<src, p1buf, p1wclosed, p1rclosed, p2buf, p2wclosed, p2rclosed, driver,
                   driverWritten, stage, hasher, contents, forwarded, received, sawEOF, error>>

\* ---- leaving the scope: each pipe's exit closes its readable end, joins
\* its thread and re-raises what the thread raised, unless an exception is
\* already on its way out.
StageEnded == stage \in {"done", "stopped", "raised"}
DriverEnded == driver \in {"done", "broken", "failed"}

CloseStage ==
    /\ main = "close_stage"
    /\ p2rclosed' = TRUE
    /\ main' = "join_stage"
    /\ UNCHANGED <<cpVars, recVars, envVars, opVars, usVars, lastUpload>>
    /\ UNCHANGED <<src, p1buf, p1wclosed, p1rclosed, p2buf, p2wclosed, driver, driverWritten,
                   stage, hasher, contents, forwarded, consumer, received, sawEOF, error>>

JoinStage ==
    /\ main = "join_stage"
    /\ StageEnded
    /\ error' = IF stage = "raised" THEN "ChecksumError" ELSE error
    /\ main' = "close_driver"
    /\ UNCHANGED <<cpVars, recVars, envVars, opVars, usVars, lastUpload>>
    /\ UNCHANGED <<src, p1buf, p1wclosed, p1rclosed, p2buf, p2wclosed, p2rclosed, driver,
                   driverWritten, stage, hasher, contents, forwarded, consumer, received, sawEOF>>

CloseDriver ==
    /\ main = "close_driver"
    /\ p1rclosed' = TRUE
    /\ main' = "join_driver"
    /\ UNCHANGED <<cpVars, recVars, envVars, opVars, usVars, lastUpload>>
    /\ UNCHANGED <<src, p1buf, p1wclosed, p2buf, p2wclosed, p2rclosed, driver, driverWritten,
                   stage, hasher, contents, forwarded, consumer, received, sawEOF, error>>

JoinDriver ==
    /\ main = "join_driver"
    /\ DriverEnded
    /\ error' = IF driver = "failed" /\ error = "none" THEN "AssertionError" ELSE error
    /\ main' = "done"
    /\ UNCHANGED <<cpVars, recVars, envVars, opVars, usVars, lastUpload>>
    /\ UNCHANGED <<src, p1buf, p1wclosed, p1rclosed, p2buf, p2wclosed, p2rclosed, driver,
                   driverWritten, stage, hasher, contents, forwarded, consumer, received, sawEOF>>

DriverNext == DriverWrite \/ DriverDone \/ DriverBroken \/ DriverAssert
StageNext == StageRead \/ StageHash \/ StageWrite \/ StageBroken \/ StageVerify
ScopeExitNext == CloseStage \/ JoinStage \/ CloseDriver \/ JoinDriver

StreamNext ==
    \/ \E v \in BOOLEAN : DownloadStreamOpen(v)
    \/ DriverWrite
    \/ DriverDone
    \/ DriverBroken
    \/ DriverAssert
    \/ StageRead
    \/ StageHash
    \/ StageWrite
    \/ StageBroken
    \/ StageVerify
    \/ ConsumerRead
    \/ ConsumerEOF
    \/ ConsumerExit
    \/ CloseStage
    \/ JoinStage
    \/ CloseDriver
    \/ JoinDriver

StreamSpec == StreamInit /\ [][StreamNext]_vars

\* The threads and the scope's exit are scheduled fairly; the caller's body
\* may take as long as it likes.
FairStreamSpec ==
    /\ StreamSpec
    /\ WF_vars(DriverNext)
    /\ WF_vars(StageNext)
    /\ WF_vars(ScopeExitNext)

\* ---------------------------------------------------------- every operation
\* All eight operations on one record.  The caller runs one operation at a
\* time; a download stream, once opened, runs to the end of its scope.  To
\* keep the byte-by-byte transfers short, each operation is offered one
\* input of each kind, and a transfer starts only when the record's bytes
\* are at most MaxStream long.
RecordFiles == {<<1, 0>>}
RecordSources == {srcObj \in SrcObjects : srcObj[1] \in {1, InlineThreshold + 1}}

NoStream == main = "new"
Stored == IF content # None THEN content[1]
          ELSE IF HasObject(version) THEN ObjectOf(version) ELSE <<>>
Transferable ==
    /\ pc = "idle" /\ NoStream
    /\ content = None /\ Truthy(version) => HasObject(version)
    /\ Len(Stored) <= MaxStream

RecordNext ==
    \/ NoStream /\ \E f \in RecordFiles, c \in BOOLEAN : Upload(f, c)
    \/ NoStream /\ \E f \in RecordFiles, c \in BOOLEAN : UploadFails(f, c)
    \/ NoStream /\ \E data \in RecordFiles, a \in BOOLEAN : UploadStreamOpen(data, a)
    \/ NoStream /\ UsWrite
    \/ NoStream /\ UsRead
    \/ NoStream /\ UsReaderDone
    \/ NoStream /\ UsReaderStop
    \/ NoStream /\ UsBodyExit
    \/ NoStream /\ UsBodyRaises
    \/ NoStream /\ UsScopeExit
    \/ NoStream /\ UsReturn
    \/ NoStream /\ \E srcObj \in RecordSources : CopyFromInline(srcObj)
    \/ NoStream /\ \E srcObj \in RecordSources : CopyFromRemote(srcObj)
    \/ NoStream /\ \E srcObj \in RecordSources : CopyFromFails(srcObj)
    \/ NoStream /\ CopyToInline
    \/ NoStream /\ CopyToRemote
    \/ NoStream /\ CopyToEmpty
    \/ NoStream /\ CopyToFails
    \/ Transferable /\ \E v \in BOOLEAN : DownloadInline(v, None)
    \/ Transferable /\ \E v \in BOOLEAN : DownloadRemote(v, None)
    \/ NoStream /\ \E v \in BOOLEAN : DownloadMissing(v, None)
    \/ NoStream /\ \E v \in BOOLEAN : DownloadEmpty(v, None)
    \/ NoStream /\ DownloadWrite
    \/ NoStream /\ DownloadFail
    \/ NoStream /\ DownloadPublish
    \/ NoStream /\ GetSizeInline
    \/ NoStream /\ GetSizeRemote
    \/ NoStream /\ GetSizeEmpty
    \/ NoStream /\ Delete
    \/ NoStream /\ Return
    \/ Transferable /\ \E v \in BOOLEAN : DownloadStreamOpen(v)
    \/ DriverWrite
    \/ DriverDone
    \/ DriverBroken
    \/ DriverAssert
    \/ StageRead
    \/ StageHash
    \/ StageWrite
    \/ StageBroken
    \/ StageVerify
    \/ ConsumerRead
    \/ ConsumerEOF
    \/ ConsumerExit
    \/ CloseStage
    \/ JoinStage
    \/ CloseDriver
    \/ JoinDriver

RecordSpec == Init /\ [][RecordNext]_vars

\* ================================================================== claims
\* The digest of data under algorithm, taken over the whole byte string.
Digest(algorithm, data) == HashUpdate(algorithm, HashNew, data)

Matches(c, data) == c = FormatChecksum(c[1], Digest(c[1], data))

\* The record takes download()'s remote branch.
RemoteStored == content = None /\ Truthy(version)

\* The running download has published its file.
Published == pc = "dl_done" /\ result \in {"ok", "ChecksumError"}

\* The state after download(dest, verifyChecksum=true) of a new record whose
\* only change was a successful upload(F), the store and the transfer having
\* done their part (the fetch neither raised nor altered the bytes).
RoundTripCase ==
    /\ pc = "dl_done" /\ verify
    /\ previousVersion = None /\ content = None /\ lastUpload # None
    /\ result # "TransferError"
    /\ HasObject(version) => xfer = ObjectOf(version)

\* C1: upload(F) on a new record followed by download(dest, verifyChecksum
\* = true) ends without error and leaves dest byte-identical to F, for F
\* smaller than, as large as and larger than the part size.
C1_RoundTrip == RoundTripCase => result = "ok" /\ dest = lastUpload

C1_Witness ==
    /\ RoundTripCase /\ result = "ok" /\ dest = lastUpload
    /\ Len(lastUpload[1]) > PartSize

\* C6: delete() with a non-null previousVersion issues the conditional
\* metadata delete first, expecting exactly previousVersion; the object
\* delete follows only a successful conditional delete, and when the
\* catalog's version differs delete() fails and removes neither the
\* metadata record nor any object.
DeleteStep == pc = "idle" /\ pc' = "del_done" /\ previousVersion # None

C6_ConditionalDeleteFirst ==
    [][DeleteStep =>
        /\ calls'[1] = <<"delete_attributes", previousVersion[1]>>
        /\ \A i \in 1..Len(calls') :
              calls'[i][1] = "delete_object" => i > 1 /\ catalog = previousVersion /\ result' = "ok"
        /\ catalog # previousVersion =>
              /\ result' = "ConditionalCheckFailed"
              /\ catalog' = catalog /\ objects' = objects
              /\ Len(calls') = 1]_vars

C6_Witness ==
    /\ pc = "del_done" /\ result = "ConditionalCheckFailed"
    /\ Truthy(previousVersion) /\ HasObject(previousVersion) /\ catalog = OtherVersion

\* C7: a successful delete() issues exactly one object-store delete, for
\* previousVersion, when previousVersion is a non-empty token; none, after
\* the metadata delete, when previousVersion is ''; and neither call when
\* previousVersion is None.
ObjectDeletes == {i \in 1..Len(calls) : calls[i][1] = "delete_object"}
MetadataDeletes == {i \in 1..Len(calls) : calls[i][1] = "delete_attributes"}

C7_ObjectDeleteCount ==
    (pc = "del_done" /\ result = "ok") =>
        /\ Truthy(previousVersion) =>
              /\ Cardinality(ObjectDeletes) = 1
              /\ \A i \in ObjectDeletes : calls[i][2] = previousVersion[1]
        /\ previousVersion = Some(EmptyStr) =>
              /\ ObjectDeletes = {}
              /\ Cardinality(MetadataDeletes) = 1
        /\ previousVersion = None => calls = <<>>

C7_Witness ==
    /\ pc = "del_done" /\ result = "ok"
    /\ previousVersion = Some(EmptyStr) /\ ObjectDeletes = {} /\ catalog = None

\* C8: download(verifyChecksum=true) of a remote-stored record with a
\* recorded checksum raises ChecksumError exactly when the bytes fetched into
\* the local file hash to something else than the recorded checksum; with
\* verifyChecksum=false or no recorded checksum it never raises it.
C8_DownloadVerifies ==
    Published =>
        /\ (RemoteStored /\ verify /\ checksum # None) =>
              (result = "ChecksumError" <=> ~Matches(checksum[1], dest[1]))
        /\ (~verify \/ checksum = None) => result # "ChecksumError"

C8_Witness ==
    /\ Published /\ RemoteStored /\ verify /\ checksum # None
    /\ result = "ChecksumError" /\ ~Matches(checksum[1], dest[1])
    /\ Len(dest[1]) = Len(ObjectOf(version))

\* C9: while download() runs, the destination path holds what it held
\* before the call until the complete content is published; a transfer that
\* fails partway leaves the destination as it was and no temporary file.
Downloading == pc \in {"dl_inline", "dl_fetch"}

C9_AtomicPublish ==
    /\ Downloading => dest = destBefore
    /\ pc = "dl_done" => dest = destBefore \/ dest = Some(xfer)
    /\ (pc = "dl_done" /\ result = "TransferError") => dest = destBefore /\ tmp = None

C9_Witness ==
    /\ pc = "dl_done" /\ result = "TransferError"
    /\ destBefore # None /\ dest = destBefore /\ tmp = None
    /\ Len(xfer) > 1

\* C10: when the caller's body leaves uploadStream's scope normally, the
\* scope raises RuntimeError if the pipe's reader has not run to completion
\* and ends without error if it has.
C10_ReaderMustComplete ==
    (pc = "us_done" /\ usBody = "exited") =>
        IF usReader = "done" THEN result = "ok" ELSE result = "RuntimeError"

C10_Witness ==
    pc = "us_done" /\ usBody = "exited" /\ usReader = "stopped" /\ result = "RuntimeError"

\* --------------------------------------------------- downloadStream claims
\* The caller's body left before end-of-stream, with bytes still unread.
ClosedEarly == consumer = "left" /\ received # src

\* C2: downloadStream(verifyChecksum=true) on a record with a recorded
\* checksum, read to end-of-stream: the scope ends with ChecksumError when
\* the bytes the source produced hash to something else than the recorded
\* checksum, and with no error when they hash to it.
C2_StreamVerifies ==
    (main = "done" /\ Interposed /\ HasSource /\ sawEOF) =>
        IF Matches(checksum[1], driverWritten)
        THEN error = "none"
        ELSE error = "ChecksumError"

C2_Witness ==
    /\ main = "done" /\ Interposed /\ HasSource /\ sawEOF
    /\ ~Matches(checksum[1], driverWritten) /\ error = "ChecksumError"
    /\ Len(received) > ChunkSize

\* C3: what the consumer has received is always a prefix of what the driver
\* has written; when verifying, the hash state is the digest of exactly the
\* chunks handed to the forwarding write, in order, and at end-of-stream it
\* is the digest of the bytes the consumer received.
HashedSoFar == forwarded \o (IF stage \in {"write", "stopped"} THEN contents ELSE <<>>)

C3_OrderedAndHashedOnce ==
    /\ IsPrefix(received, driverWritten)
    /\ Interposed =>
          /\ hasher = Digest(StageAlgorithm, HashedSoFar)
          /\ forwarded = received \o p2buf
          /\ IsPrefix(HashedSoFar, driverWritten)
          /\ sawEOF => received = driverWritten /\ hasher = Digest(StageAlgorithm, received)
    /\ (~Interposed /\ main # "new") => driverWritten = received \o p1buf

C3_Witness ==
    /\ Interposed /\ sawEOF /\ Len(received) > ChunkSize
    /\ hasher = Digest(StageAlgorithm, received) /\ received = src

\* C4 as stated: once the consumer of a verifying stream has closed early,
\* no ChecksumError is raised, whatever the bytes and the checksum.
C4_NoErrorAfterEarlyClose ==
    (Interposed /\ ClosedEarly) => error # "ChecksumError"

\* C4, amended: after an early close a forwarding write that fails ends the
\* stage without a comparison and without ChecksumError; ChecksumError is
\* raised for such a stream only when every forwarding write had succeeded,
\* so that the stage read its input to the end, and the source's bytes do
\* not hash to the recorded checksum.
C4_ErrorOnlyAfterFullForward ==
    (Interposed /\ ClosedEarly) =>
        /\ stage = "raised" => forwarded = src /\ ~Matches(checksum[1], src)
        /\ error = "ChecksumError" => stage = "raised"
        /\ Len(forwarded) < Len(src) => error # "ChecksumError"

C4_Witness ==
    /\ Interposed /\ ClosedEarly /\ main = "done"
    /\ stage = "stopped" /\ error = "none"
    /\ ~Matches(checksum[1], src)

\* C5: after an early close both background threads end and the scope is
\* left, whatever the payload's size against the pipe's capacity.
ScopeLeft == main = "done" /\ DriverEnded /\ (Interposed => StageEnded)

C5_EarlyCloseTerminates == ClosedEarly ~> ScopeLeft

\* The consumer has left while both threads wait on a full pipe.
C5_Witness ==
    /\ ClosedEarly /\ Interposed
    /\ driver = "run" /\ Len(driverWritten) < Len(src) /\ Len(p1buf) = PipeCap
    /\ stage = "write" /\ Len(p2buf) = PipeCap

\* ---------------------------------------------------------------------------
\* C11: a record's bytes live in one place: after any sequence of successful
\* upload and copyFrom operations the record never holds both a non-null
\* content and a non-empty version.
C11_OneStorageLocation == ~(content # None /\ Truthy(version))

\* ---------------------------------------------------------------------------
\* C12: after a successful upload(localFilePath, calculateChecksum), whatever
\* the record held before, version is the token the transfer returned,
\* checksum is the checksum of the local file when calculateChecksum is true,
\* and content is null.
Uploaded == pc = "up_done" /\ result = "ok"

C12_UploadReplacesRecord ==
    Uploaded =>
        /\ version = Some(Token(Len(objects)))
        /\ arg[2] => checksum = Some(ComputeChecksumForFile(arg[1], "sha1"))
        /\ content = None

\* ---------------------------------------------------------------------------
\* C13: copyFrom chooses by the source's declared content length alone.  A
\* source of at most 256 bytes, 256 included, is fetched and its bytes become
\* content, with no server-side copy; a source of 257 bytes or more is copied
\* server-side, the returned token becomes version, and no bytes are fetched.
CopiedFrom == pc = "cf_done" /\ result = "ok"
CallsOf(name) == {i \in 1..Len(calls) : calls[i][1] = name}

C13_CopyFromThreshold ==
    CopiedFrom =>
        IF arg[1] <= InlineThreshold
        THEN /\ content = Some(arg[2])
             /\ CallsOf("get") # {} /\ CallsOf("copy") = {}
        ELSE /\ version = Some(Token(Len(objects)))
             /\ ObjectOf(version) = arg[2]
             /\ CallsOf("copy") # {} /\ CallsOf("get") = {}

C13_Witness ==
    /\ CopiedFrom
    /\ arg[1] = InlineThreshold
    /\ content = Some(arg[2]) /\ Len(content[1]) = InlineThreshold

\* ---------------------------------------------------------------------------
\* C14: copyTo writes content directly to the destination whenever content
\* is non-null, zero-length content included; otherwise, when version is
\* set, it asks for a server-side copy with exactly that version as the
\* source; when neither is set it fails with an assertion error and has
\* written nothing.
CopiedTo == pc = "ct_done"

C14_CopyToBranches ==
    CopiedTo =>
        IF content # None
        THEN /\ calls = << <<"put", content>> >>
             /\ result \in {"ok", "TransferError"}
             /\ result = "ok" => dstObj = content
        ELSE IF Truthy(version)
        THEN /\ calls = << <<"copy", version>> >>
             /\ result \in {"ok", "NoSuchVersion", "TransferError"}
             /\ result = "ok" => dstObj = Some(ObjectOf(version))
        ELSE /\ result = "AssertionError"
             /\ calls = <<>> /\ dstObj = None

C14_Witness ==
    /\ CopiedTo /\ result = "ok"
    /\ content = Some(<<>>)
    /\ dstObj = Some(<<>>)

\* ---------------------------------------------------------------------------
\* C15: getSize returns the length of content whenever content is non-null
\* (0 for zero-length content) without asking the store; otherwise, when
\* version is set, the stored object's declared content length; otherwise 0.
\* And a record whose content is zero-length downloads successfully, as an
\* existing empty file.
SizeReturned == pc = "gs_done"
DownloadedEmptyInline == pc = "dl_done" /\ content = Some(<<>>) /\ result # "TransferError"

C15_GetSize ==
    /\ SizeReturned =>
          IF content # None
          THEN result = "ok" /\ ret = Some(Len(content[1])) /\ calls = <<>>
          ELSE IF Truthy(version)
          THEN /\ calls = << <<"head", None>> >>
               /\ result = "ok" => HasObject(version) /\ ret = Some(Len(ObjectOf(version)))
               /\ result # "ok" => ~HasObject(version)
          ELSE result = "ok" /\ ret = Some(0) /\ calls = <<>>
    /\ DownloadedEmptyInline => result = "ok" /\ dest = Some(<<>>)

C15_Witness ==
    /\ SizeReturned /\ result = "ok"
    /\ content = Some(<<>>)
    /\ ret = Some(0) /\ calls = <<>>

\* ---------------------------------------------------------------------------
\* C16: when uploadStream is opened with allowInlining true and the bytes
\* written through it stay below the inline threshold, they end up in
\* content and the store is not called; when allowInlining is false (or the
\* size reaches the threshold) the bytes go to the store and the version is
\* recorded.
StreamUploaded == pc = "us_done" /\ result = "ok"
Written == SubSeq(arg[1], 1, Len(arg[1]) - Len(usLeft))

C16_UploadStreamInlines ==
    StreamUploaded =>
        IF arg[2] /\ Len(Written) < InlineThreshold
        THEN content = Some(Written) /\ calls = <<>>
        ELSE HasObject(version) /\ ObjectOf(version) = Written

\* ---------------------------------------------------------------------------
\* C17: no operation assigns previousVersion: upload, uploadStream,
\* copyFrom, copyTo, download, downloadStream, delete and getSize all leave
\* it at the value the record was created or loaded with.
C17_PreviousVersionFrame == [][previousVersion' = previousVersion]_vars

\* delete has run on a loaded record whose version an upload has replaced,
\* and previousVersion is still the loaded version.
C17_Witness ==
    /\ pc = "del_done"
    /\ previousVersion = Some(Token(1))
    /\ version = Some(Token(2))
    /\ \E i \in ObjectDeletes : calls[i][2] = previousVersion[1]

\* ---------------------------------------------------------------------------
\* C18: a remote download verifies the checksum only after the
\* atomic-creation scope has published the file.  Whenever download raises
\* the checksum error, the destination path exists and holds the complete
\* fetched bytes, which do not match the checksum; it is neither removed nor
\* rolled back to what was there before.
ChecksumRaised == pc = "dl_done" /\ result = "ChecksumError"

C18_MismatchLeavesFile ==
    ChecksumRaised =>
        /\ content = None
        /\ dest = Some(xfer) /\ tmp = None
        /\ checksum # None /\ ~Matches(checksum[1], dest[1])

C18_Witness ==
    /\ ChecksumRaised
    /\ destBefore = Some(<<0>>)
    /\ dest = Some(xfer) /\ dest # destBefore

\* ---------------------------------------------------------------------------
\* C19: upload assigns checksum before the transfer and version only after
\* it.  When the transfer fails, version keeps the value it had and checksum
\* has already been replaced: by the new file's checksum, or by null when
\* calculateChecksum is false.
UploadFailedStep == pc = "idle" /\ pc' = "up_done" /\ result' = "TransferError"

C19_FailedUploadReplacesChecksum ==
    [][UploadFailedStep =>
          /\ version' = version
          /\ checksum' = IF arg'[2] THEN Some(ComputeChecksumForFile(arg'[1], "sha1"))
                         ELSE None]_vars

\* After a failed upload the record pairs the version it had with the
\* checksum of a file that was never stored.
C19_Witness ==
    /\ pc = "up_done" /\ result = "TransferError"
    /\ HasObject(version)
    /\ arg[2] /\ arg[1] # ObjectOf(version)
    /\ checksum = Some(ComputeChecksumForFile(arg[1], "sha1"))
    /\ ~Matches(checksum[1], ObjectOf(version))

\* ---------------------------------------------------------------------------
\* C20: download of a record whose content is non-null never verifies the
\* checksum: it succeeds, without the checksum error, even when
\* verifyChecksum is true and the recorded checksum does not match the
\* inline bytes; downloadStream on the same record, read to end-of-stream,
\* does verify them and ends with the checksum error.
InlineMismatch == content # None /\ checksum # None /\ ~Matches(checksum[1], content[1])

C20_InlineDownloadUnverified ==
    /\ (pc = "dl_done" /\ content # None) =>
          /\ result \in {"ok", "TransferError"}
          /\ result = "ok" => dest = content
    /\ (main = "done" /\ verify /\ InlineMismatch /\ sawEOF) =>
          error = "ChecksumError"

C20_Witness ==
    /\ pc = "dl_done" /\ verify /\ InlineMismatch
    /\ result = "ok" /\ dest = content

====
